---- MODULE Spec2Model ----
(***************************************************************************)
(* A model of lib/Dropdown.js: one Dropdown widget, the DOM nodes it is     *)
(* bound to, the browser's timer queue and the event loop that delivers     *)
(* pointer events, clicks and expired timers to it.                         *)
(*                                                                          *)
(* Time is counted in milliseconds.  A widget built with an explicit        *)
(* options.wait is observed at every millisecond; a widget that runs on the *)
(* default delay is observed at its timer deadlines only.                   *)
(***************************************************************************)
EXTENDS Integers, Sequences, FiniteSets

\* Largest options.wait the constructor is given.
MaxWait == 2

\* Largest number of timers pending in the browser at one time.
MaxTimers == 2

\* Dropdown.prototype.timeout
DefaultTimeout == 400

\* The value of a debounce closure's `timeout` variable that names no timer
\* (undefined before the first call, null once the timer has fired).
NoTimer == 0

VARIABLES
    openBy,        \* this.openBy
    wait,          \* options.wait: <<>> when not supplied, <<n>> when supplied
    timeout,       \* this.timeout
    initExpanded,  \* whether el carried the class 'expanded' at construction
    onSelectCloses,  \* options.onSelect calls the widget's _close()
    isOpened,      \* this.isOpened
    isBrowsing,    \* this.isBrowsing
    expanded,      \* this.el.classList.contains('expanded')
    listeners,     \* <<node, event type>> pairs this widget listens on
    timers,        \* the browser's pending timers, oldest first
    openTimeout,   \* `timeout` in the closure of this.open
    closeTimeout,  \* `timeout` in the closure of this.close
    destroyed,     \* destroy() has returned
    calls,         \* what the latest step invoked, in order
    last,          \* what the latest event or method call from outside was
    burst,         \* the run of open() (or close()) calls in progress
    net            \* onOpen invocations so far, less onClose invocations

config == <<openBy, wait, timeout, initExpanded, onSelectCloses>>
widget == <<isOpened, isBrowsing, expanded, timers, openTimeout, closeTimeout>>
vars == <<openBy, wait, timeout, initExpanded, onSelectCloses, isOpened,
          isBrowsing, expanded, listeners, timers, openTimeout, closeTimeout,
          destroyed, calls, last, burst, net>>

Min(a, b) == IF a <= b THEN a ELSE b

----------------------------------------------------------------------------
(* The document: el holds the trigger (its first div) and the menu (its    *)
(* first ul); the menu holds the items.  The page holds a second Dropdown,  *)
(* constructed in click mode, with a trigger and a menu item of its own.    *)

MenuNodes == {"menu", "itemPlain", "itemBare", "itemDisabled"}

\* The other Dropdown's nodes.
OtherNodes == {"otherTrigger", "otherItem"}

Targets == {"trigger", "triggerChild", "outside"} \cup MenuNodes \cup OtherNodes

\* Where the pointer enters and leaves.
PointerTargets == {"trigger", "triggerChild", "menu", "itemPlain", "outside"}

EventTypes == {"mouseover", "mouseout", "click"}

TargetsOf(eventType) == IF eventType = "click" THEN Targets ELSE PointerTargets

\* The nodes an event visits while it bubbles from its target to the window.
Path(target) ==
    CASE target = "trigger"      -> <<"trigger", "el", "window">>
      [] target = "triggerChild" -> <<"triggerChild", "trigger", "el", "window">>
      [] target = "menu"         -> <<"menu", "el", "window">>
      [] target \in MenuNodes    -> <<target, "menu", "el", "window">>
      [] target = "otherItem"    -> <<target, "otherMenu", "otherEl", "window">>
      [] target = "otherTrigger" -> <<target, "otherEl", "window">>
      [] OTHER                   -> <<target, "window">>

\* this.menu.contains(node)
contains(node) == node \in MenuNodes

\* element.getAttribute('disabled'): <<>> is null, <<v>> the attribute's value.
getAttribute(element) ==
    CASE element = "itemBare"     -> <<"">>
      [] element = "itemDisabled" -> <<"disabled">>
      [] OTHER                    -> <<>>

\* JavaScript's truthiness of null or a string.
Truthy(v) == v # <<>> /\ v[1] # ""

----------------------------------------------------------------------------
(* The widget's state S, as its methods take and return it.                 *)

Cur == [isOpened     |-> isOpened,
        isBrowsing   |-> isBrowsing,
        expanded     |-> expanded,
        timers       |-> timers,
        openTimeout  |-> openTimeout,
        closeTimeout |-> closeTimeout,
        calls        |-> <<>>]

Log(S, e) == [S EXCEPT !.calls = Append(@, e)]

Invoked(log, f) == \E i \in 1..Len(log) : log[i][1] = f

Count(log, f) == Cardinality({i \in 1..Len(log) : log[i][1] = f})

----------------------------------------------------------------------------
(* Timers and debounce.                                                     *)

clearTimeout(tm, id) == SelectSeq(tm, LAMBDA t : t.id # id)

FreshId(tm) ==
    CHOOSE i \in 1..(Len(tm) + 1) :
        /\ \A k \in 1..Len(tm) : tm[k].id # i
        /\ \A j \in 1..(i - 1) : \E k \in 1..Len(tm) : tm[k].id = j

setTimeout(tm, kind) ==
    [timers |-> Append(tm, [id |-> FreshId(tm), kind |-> kind, rem |-> timeout]),
     id     |-> FreshId(tm)]

\* Timer ids are opaque handles: the pending timers are renumbered by age, and
\* a closure's `timeout` follows its timer (an id whose timer is gone clears
\* nothing, like null).
Renumber(S) ==
    LET n == Len(S.timers)
        pos(id) == IF \E k \in 1..n : S.timers[k].id = id
                   THEN CHOOSE k \in 1..n : S.timers[k].id = id
                   ELSE NoTimer
    IN  [S EXCEPT !.timers = [k \in 1..n |-> [S.timers[k] EXCEPT !.id = k]],
                  !.openTimeout = pos(S.openTimeout),
                  !.closeTimeout = pos(S.closeTimeout)]

\* debounce() without its clearTimeout: the pending timer is left to expire.
debounce_keepingPending(tm, held, kind) == setTimeout(tm, kind)

\* One call of a function debounce() returned: `held` is its closure's timeout.
debounce(tm, held, kind) == setTimeout(clearTimeout(tm, held), kind)

open(S) ==
    LET r == debounce(S.timers, S.openTimeout, "open")
    IN  [Log(S, <<"open">>) EXCEPT !.timers = r.timers, !.openTimeout = r.id]

\* close debounced in the closure of open: one `timeout` for both.
close_sharingTimeout(S) ==
    LET r == debounce(S.timers, S.openTimeout, "close")
    IN  [Log(S, <<"close">>) EXCEPT !.timers = r.timers, !.openTimeout = r.id]

close(S) ==
    LET r == debounce(S.timers, S.closeTimeout, "close")
    IN  [Log(S, <<"close">>) EXCEPT !.timers = r.timers, !.closeTimeout = r.id]

\* debounce(this.open.bind(this), timeout)(): a new closure at every call.
hoverOpen(S) ==
    LET r == debounce(S.timers, NoTimer, "hover")
    IN  [Log(S, <<"debounce">>) EXCEPT !.timers = r.timers]

----------------------------------------------------------------------------
(* The widget's immediate methods.                                          *)

onBrowse(S) == [Log(S, <<"onBrowse">>) EXCEPT !.isBrowsing = TRUE]

onEndBrowse(S) == [Log(S, <<"onEndBrowse">>) EXCEPT !.isBrowsing = FALSE]

\* _open without its isOpened test.
_open_unguarded(S) ==
    LET L == Log(S, <<"_open">>)
    IN  Log([L EXCEPT !.expanded = TRUE, !.isOpened = TRUE], <<"onOpen">>)

_open(S) ==
    LET L == Log(S, <<"_open">>)
    IN  IF L.isOpened
        THEN L
        ELSE Log([L EXCEPT !.expanded = TRUE, !.isOpened = TRUE], <<"onOpen">>)

\* _close without its classList.remove.
_close_keepingClass(S) ==
    LET L == Log(S, <<"_close">>)
    IN  IF (L.isBrowsing /\ L.isOpened) \/ ~L.isOpened
        THEN L
        ELSE Log([L EXCEPT !.isOpened = FALSE], <<"onClose">>)

\* _close without the isBrowsing half of its test.
_close_whileBrowsing(S) ==
    LET L == Log(S, <<"_close">>)
    IN  IF ~L.isOpened
        THEN L
        ELSE Log([L EXCEPT !.expanded = FALSE, !.isOpened = FALSE], <<"onClose">>)

\* _close invoking onClose on a widget that is closed already.
_close_alwaysCalling(S) ==
    LET L == Log(S, <<"_close">>)
    IN  IF L.isBrowsing /\ L.isOpened
        THEN L
        ELSE Log([L EXCEPT !.expanded = FALSE, !.isOpened = FALSE], <<"onClose">>)

_close(S) ==
    LET L == Log(S, <<"_close">>)
    IN  IF (L.isBrowsing /\ L.isOpened) \/ ~L.isOpened
        THEN L
        ELSE Log([L EXCEPT !.expanded = FALSE, !.isOpened = FALSE], <<"onClose">>)

\* this.onSelect(this, element): the caller's callback, which does nothing or
\* calls the widget's _close().
onSelect(S, element) ==
    LET L == Log(S, <<"onSelect", element>>)
    IN  IF onSelectCloses THEN _close(L) ELSE L

\* select closing the menu itself after the callback.
select_closing(S, element) ==
    LET L == Log(S, <<"select", element>>)
        isDisabled == getAttribute(element)
    IN  IF Truthy(isDisabled)
        THEN L
        ELSE LET M == onSelect(L, element)
             IN  [M EXCEPT !.expanded = FALSE, !.isOpened = FALSE]

select(S, element) ==
    LET L == Log(S, <<"select", element>>)
        isDisabled == getAttribute(element)
    IN  IF Truthy(isDisabled) THEN L ELSE onSelect(L, element)

\* toggle through the debounced open and close.
toggle_debounced(S) ==
    LET L == Log(S, <<"toggle">>)
    IN  IF L.isOpened THEN close(L) ELSE open(L)

toggle(S) ==
    LET L == Log(S, <<"toggle">>)
    IN  IF L.isOpened THEN _close(L) ELSE _open(L)

----------------------------------------------------------------------------
(* Expired timers.                                                          *)

\* The function handed to setTimeout, run for the expired timer t.
timerCallback(S, t) ==
    LET L == Log(S, <<"timer", t.kind>>)
    IN  CASE t.kind = "open"  -> _open([L EXCEPT !.openTimeout = NoTimer])
          [] t.kind = "close" -> _close([L EXCEPT !.closeTimeout = NoTimer])
          [] OTHER            -> open(L)

----------------------------------------------------------------------------
(* Event handling.                                                          *)

\* handleEvent with the debounced close() for a click outside.
handleEvent_closingLater(S, eventType, eventElement) ==
    LET L == Log(S, <<"handleEvent", eventType, eventElement>>)
        isTrigger == eventElement = "trigger"
        isMenu == contains(eventElement) \/ eventElement = "menu"
    IN  CASE eventType = "mouseover" ->
                LET a == IF isTrigger THEN hoverOpen(L) ELSE L
                    b == IF isMenu THEN onBrowse(a) ELSE a
                IN  [s |-> b, stopped |-> FALSE]
          [] eventType = "mouseout" ->
                LET a == IF isTrigger THEN close(L) ELSE L
                    b == IF isMenu THEN close(onEndBrowse(a)) ELSE a
                IN  [s |-> b, stopped |-> FALSE]
          [] OTHER ->
                IF isTrigger
                THEN [s |-> toggle(L), stopped |-> TRUE]
                ELSE IF isMenu
                     THEN [s |-> select(L, eventElement), stopped |-> TRUE]
                     ELSE [s |-> close(L), stopped |-> FALSE]

\* handleEvent without its two event.stopPropagation() calls.
handleEvent_propagating(S, eventType, eventElement) ==
    LET L == Log(S, <<"handleEvent", eventType, eventElement>>)
        isTrigger == eventElement = "trigger"
        isMenu == contains(eventElement) \/ eventElement = "menu"
    IN  CASE eventType = "mouseover" ->
                LET a == IF isTrigger THEN hoverOpen(L) ELSE L
                    b == IF isMenu THEN onBrowse(a) ELSE a
                IN  [s |-> b, stopped |-> FALSE]
          [] eventType = "mouseout" ->
                LET a == IF isTrigger THEN close(L) ELSE L
                    b == IF isMenu THEN close(onEndBrowse(a)) ELSE a
                IN  [s |-> b, stopped |-> FALSE]
          [] OTHER ->
                IF isTrigger
                THEN [s |-> toggle(L), stopped |-> FALSE]
                ELSE IF isMenu
                     THEN [s |-> select(L, eventElement), stopped |-> FALSE]
                     ELSE [s |-> _close(L), stopped |-> FALSE]

handleEvent(S, eventType, eventElement) ==
    LET L == Log(S, <<"handleEvent", eventType, eventElement>>)
        isTrigger == eventElement = "trigger"
        isMenu == contains(eventElement) \/ eventElement = "menu"
    IN  CASE eventType = "mouseover" ->
                LET a == IF isTrigger THEN hoverOpen(L) ELSE L
                    b == IF isMenu THEN onBrowse(a) ELSE a
                IN  [s |-> b, stopped |-> FALSE]
          [] eventType = "mouseout" ->
                LET a == IF isTrigger THEN close(L) ELSE L
                    b == IF isMenu THEN close(onEndBrowse(a)) ELSE a
                IN  [s |-> b, stopped |-> FALSE]
          [] OTHER ->
                IF isTrigger
                THEN [s |-> toggle(L), stopped |-> TRUE]
                ELSE IF isMenu
                     THEN [s |-> select(L, eventElement), stopped |-> TRUE]
                     ELSE [s |-> _close(L), stopped |-> FALSE]

\* registerToggleHandlers without the break that ends its 'hover' case, and
\* with the pointer listeners added before the switch.
Registered_withPointer(mode) ==
    {<<"trigger", "mouseover">>, <<"trigger", "mouseout">>,
     <<"menu", "mouseover">>, <<"menu", "mouseout">>,
     <<"trigger", "click">>, <<"menu", "click">>, <<"window", "click">>}

\* The listeners registerToggleHandlers adds.
Registered(mode) ==
    (IF mode = "hover"
     THEN {<<"trigger", "mouseover">>, <<"trigger", "mouseout">>,
           <<"menu", "mouseover">>, <<"menu", "mouseout">>}
     ELSE {<<"trigger", "click">>})
    \cup {<<"menu", "click">>, <<"window", "click">>}

\* destroy without its window.removeEventListener.
Removed_leavingWindow(mode) ==
    (IF mode = "hover"
     THEN {<<"trigger", "mouseover">>, <<"trigger", "mouseout">>,
           <<"menu", "mouseover">>, <<"menu", "mouseout">>}
     ELSE {<<"trigger", "click">>})
    \cup {<<"menu", "click">>}

\* The listeners destroy removes.
Removed(mode) ==
    (IF mode = "hover"
     THEN {<<"trigger", "mouseover">>, <<"trigger", "mouseout">>,
           <<"menu", "mouseover">>, <<"menu", "mouseout">>}
     ELSE {<<"trigger", "click">>})
    \cup {<<"window", "click">>, <<"menu", "click">>}

\* The browser's dispatch: the event bubbles along its path and every node the
\* widget listens on hands it to handleEvent, until a handler stops it.
\* The other Dropdown's click listeners below the window, on its trigger and
\* on its menu: its handleEvent stops the click there.
StoppedByOther(node, eventType) ==
    eventType = "click" /\ node \in {"otherTrigger", "otherMenu"}

RECURSIVE Propagate(_, _, _, _)
Propagate(S, eventType, target, path) ==
    IF path = <<>> \/ StoppedByOther(Head(path), eventType)
    THEN S
    ELSE IF <<Head(path), eventType>> \in listeners
         THEN LET r == handleEvent(S, eventType, target)
              IN  IF r.stopped
                  THEN r.s
                  ELSE Propagate(r.s, eventType, target, Tail(path))
         ELSE Propagate(S, eventType, target, Tail(path))

----------------------------------------------------------------------------
(* The state machine.                                                       *)

\* burst: which debounced function the run calls (op: open, close, or "hover"
\* for the pointer entering the trigger), whether one of its calls came later
\* than the call before it (late), the milliseconds since its latest call
\* (age), and, of the timers expired since: the _open and _close invocations
\* of its own (fires), the callbacks (cbs), the age at the first (at).
NoBurst == [op |-> "none", late |-> FALSE, fires |-> 0, cbs |-> 0,
            age |-> 0, at |-> 0]

\* The latest stimulus, as far as what follows it depends on it: the pointer
\* left the opened menu, a click outside el closed the menu, or anything else
\* ("new" until the first one).
Stimulus(op, arg, S) ==
    IF /\ op = "mouseout" /\ contains(arg) /\ Invoked(S.calls, "handleEvent")
       /\ isOpened /\ isBrowsing
    THEN "leave"
    ELSE IF op = "click" /\ arg = "outside" /\ Invoked(S.calls, "onClose")
         THEN "dismiss"
         ELSE "other"

\* The count of `net` is followed as far as two either way.
Clamp(n) == IF n > 2 THEN 2 ELSE IF n < -2 THEN -2 ELSE n

Commit(S) ==
    /\ Len(S.timers) <= MaxTimers
    /\ isOpened' = S.isOpened
    /\ isBrowsing' = S.isBrowsing
    /\ expanded' = S.expanded
    /\ timers' = S.timers
    /\ openTimeout' = S.openTimeout
    /\ closeTimeout' = S.closeTimeout
    /\ calls' = S.calls
    /\ net' = Clamp(net + Count(S.calls, "onOpen") - Count(S.calls, "onClose"))

\* One event or method call from outside, which takes the widget to X.
Step(op, arg, X, nextBurst) ==
    \E S \in {Renumber(X)} :
        /\ Commit(S)
        /\ last' = Stimulus(op, arg, S)
        /\ burst' = nextBurst
        /\ UNCHANGED <<config, listeners, destroyed>>

\* new Dropdown(options): the constructor and initialize().  "click" stands
\* for every options.openBy other than 'hover' (the switch's default case);
\* options.wait is absent, 0 or MaxWait.
Init ==
    /\ openBy \in {"click", "hover"}
    /\ wait \in {<<>>, <<0>>, <<MaxWait>>}
    /\ timeout = IF wait # <<>> /\ wait[1] # 0 THEN wait[1] ELSE DefaultTimeout
    /\ initExpanded \in BOOLEAN
    /\ onSelectCloses \in BOOLEAN
    /\ expanded = initExpanded
    /\ isOpened = expanded
    /\ isBrowsing = FALSE
    /\ listeners = Registered(openBy)
    /\ timers = <<>>
    /\ openTimeout = NoTimer
    /\ closeTimeout = NoTimer
    /\ destroyed = FALSE
    /\ calls = <<>>
    /\ last = "new"
    /\ burst = NoBurst
    /\ net = 0

\* A method called from outside that is neither open() nor close().
Called(op, arg, X) == ~destroyed /\ Step(op, arg, X, NoBurst)

Call_open == Called("_open", "-", _open(Cur))

Call_close == Called("_close", "-", _close(Cur))

CallToggle == Called("toggle", "-", toggle(Cur))

CallSelect(element) == Called("select", element, select(Cur, element))

CallOnBrowse == Called("onBrowse", "-", onBrowse(Cur))

CallOnEndBrowse == Called("onEndBrowse", "-", onEndBrowse(Cur))

\* The run of calls goes on when the same debounced function is called again
\* less than `timeout` after its previous call; it starts on a widget at rest
\* with no pointer-enter timer pending.
NextBurst(op, atRest) ==
    IF burst.op = op /\ burst.fires = 0 /\ burst.age < timeout
    THEN [burst EXCEPT !.late = @ \/ burst.age > 0, !.age = 0]
    ELSE IF atRest /\ \A i \in 1..Len(timers) : timers[i].kind # "hover"
         THEN [NoBurst EXCEPT !.op = op]
         ELSE NoBurst

CallOpen ==
    /\ ~destroyed
    /\ Step("open", "-", open(Cur), NextBurst("open", ~isOpened))

CallClose ==
    /\ ~destroyed
    /\ Step("close", "-", close(Cur), NextBurst("close", isOpened /\ ~isBrowsing))

CallDestroy ==
    /\ listeners' = listeners \ Removed(openBy)
    /\ destroyed' = TRUE
    /\ calls' = <<<<"destroy">>>>
    /\ last' = "other"
    /\ burst' = NoBurst
    /\ UNCHANGED <<config, widget, net>>

\* The browser dispatches one event.
Event(eventType, target) ==
    Step(eventType, target, Propagate(Cur, eventType, target, Path(target)),
         IF /\ eventType = "mouseover" /\ target = "trigger"
            /\ <<"trigger", "mouseover">> \in listeners
         THEN NextBurst("hover", ~isOpened /\ timers = <<>>)
         ELSE NoBurst)

\* What the debounced `op` invokes when its timer expires, and its callback.
Immediate(op) == IF op = "close" THEN "_close" ELSE "_open"

Callback(op) == IF op = "close" THEN "onClose" ELSE "onOpen"

\* The oldest expired timer runs.
FireTimer ==
    /\ \E i \in 1..Len(timers) : timers[i].rem = 0
    /\ LET i == CHOOSE k \in 1..Len(timers) :
                    /\ timers[k].rem = 0
                    /\ \A j \in 1..(k - 1) : timers[j].rem # 0
           t == timers[i]
       IN  \E S \in {Renumber(timerCallback(
                        [Cur EXCEPT !.timers = clearTimeout(timers, t.id)], t))} :
               /\ Commit(S)
               /\ burst' = IF burst.op = "none"
                           THEN burst
                           ELSE [burst EXCEPT
                                   !.fires = Min(@ + Count(S.calls, Immediate(burst.op)), 2),
                                   !.cbs = Min(@ + Count(S.calls, Callback(burst.op)), 2),
                                   !.at = IF burst.fires = 0 THEN burst.age ELSE @]
    /\ UNCHANGED <<config, listeners, destroyed, last>>

\* Time passes, up to the next deadline.
Advance ==
    /\ timers # <<>>
    /\ \A i \in 1..Len(timers) : timers[i].rem > 0
    /\ LET step == IF wait # <<>> /\ timeout <= MaxWait THEN 1 ELSE timeout
           d == Min(step, timers[1].rem)
       IN  /\ timers' = [i \in 1..Len(timers) |->
                            [timers[i] EXCEPT !.rem = @ - Min(@, d)]]
           /\ burst' = IF burst.op = "none" \/ burst.fires > 0
                       THEN burst
                       ELSE [burst EXCEPT !.age = @ + d]
    /\ calls' = <<>>
    /\ UNCHANGED <<config, isOpened, isBrowsing, expanded, listeners,
                   openTimeout, closeTimeout, destroyed, last, net>>

\* What the page does to the widget without calling its methods.
NextEvents ==
    \/ \E eventType \in EventTypes : \E target \in TargetsOf(eventType) :
            Event(eventType, target)
    \/ FireTimer
    \/ Advance

Next ==
    \/ Call_open
    \/ Call_close
    \/ CallToggle
    \/ \E element \in MenuNodes : CallSelect(element)
    \/ CallOnBrowse
    \/ CallOnEndBrowse
    \/ CallOpen
    \/ CallClose
    \/ CallDestroy
    \/ \E eventType \in EventTypes : \E target \in TargetsOf(eventType) :
            Event(eventType, target)
    \/ FireTimer
    \/ Advance

Spec == Init /\ [][Next]_vars

SpecEvents == Init /\ [][NextEvents]_vars

----------------------------------------------------------------------------
(* Properties.                                                              *)

\* The onOpen and onClose invocations in a step's log.
Callbacks(log) == Count(log, "onOpen") + Count(log, "onClose")

\* What a step's log starts with: the event handled or the method called from
\* outside, <<>> when the step invoked nothing.
Entry(log) == IF log = <<>> THEN <<>> ELSE log[1]

\* The invocations of e, arguments included, in a step's log.
Times(log, e) == Cardinality({i \in 1..Len(log) : log[i] = e})

\* S as the next step finds it: with an empty log.
Settled(S) == [S EXCEPT !.calls = <<>>]

\* The pending timers of one kind.
Pending(kind) == {i \in 1..Len(timers) : timers[i].kind = kind}

\* The widget after the browser has dispatched a click on the trigger.
ClickTrigger(S) == Propagate(Settled(S), "click", "trigger", Path("trigger"))

\* C1 (browse suppression): from a state with isBrowsing = TRUE, a step that
\* invokes _close (called directly, by toggle, by a click outside or by the
\* expired timer of close()) leaves isOpened and the expanded class as they
\* were and does not invoke onClose.
BrowseSuppression ==
    [][(isBrowsing /\ Invoked(calls', "_close"))
        => /\ isOpened' = isOpened
           /\ expanded' = expanded
           /\ ~Invoked(calls', "onClose")]_vars

\* The expired timer of close() has run _close on an opened menu the pointer
\* is in.
BrowseSuppressionWitness ==
    /\ isBrowsing
    /\ isOpened
    /\ calls = <<<<"timer", "close">>, <<"_close">>>>

\* C2 (idempotence): _open() on an opened widget and _close() on a closed one
\* change neither isOpened, isBrowsing, the expanded class nor any timer and
\* invoke no callback; and in every state a second _open() (or _close()) right
\* after the first changes nothing more and invokes no callback.
Idempotence ==
    /\ [](/\ Settled(_open(Settled(_open(Cur)))) = Settled(_open(Cur))
          /\ Callbacks(_open(Settled(_open(Cur))).calls) = 0
          /\ Settled(_close(Settled(_close(Cur)))) = Settled(_close(Cur))
          /\ Callbacks(_close(Settled(_close(Cur))).calls) = 0)
    /\ [][(\/ (Entry(calls') = <<"_open">> /\ isOpened)
            \/ (Entry(calls') = <<"_close">> /\ ~isOpened))
            => /\ UNCHANGED widget
               /\ Callbacks(calls') = 0]_vars

\* _open() was called on an opened widget with a timer pending.
IdempotenceWitness ==
    /\ calls = <<<<"_open">>>>
    /\ isOpened
    /\ timers # <<>>

\* C3 (debounce collapse): a run of open() calls on a closed widget, each less
\* than `timeout` after the one before, keeps exactly one timer of open()
\* pending until it expires; it expires `timeout` after the latest call, with
\* one _open invocation and one onOpen callback, and opens the widget.  The
\* same for close(), _close and onClose on an opened widget the pointer is
\* not in.
DebounceCollapse ==
    burst.op \in {"open", "close"}
        => /\ Cardinality(Pending(burst.op)) + burst.fires = 1
           /\ burst.cbs = burst.fires
           /\ burst.fires = 0
                => /\ \A i \in Pending(burst.op) :
                        timers[i].rem + burst.age = timeout
                   /\ isOpened = (burst.op = "close")
           /\ burst.fires = 1
                => /\ burst.at = timeout
                   /\ isOpened = (burst.op = "open")

\* A run of open() calls at different instants has expired.
DebounceCollapseWitness ==
    /\ burst.op = "open"
    /\ burst.late
    /\ burst.fires = 1
    /\ isOpened

\* C4 (toggle): a step that invokes toggle() opens a closed widget (class
\* added, onOpen invoked once), closes an opened widget the pointer is not in
\* (class removed, onClose invoked once), changes nothing on an opened widget
\* the pointer is in, and in every case leaves the timers as they were.
ToggleCorrectness ==
    [][Invoked(calls', "toggle")
        => /\ UNCHANGED <<timers, openTimeout, closeTimeout, isBrowsing>>
           /\ ~isOpened
                => /\ isOpened' /\ expanded'
                   /\ Count(calls', "onOpen") = 1 /\ Count(calls', "onClose") = 0
           /\ (isOpened /\ ~isBrowsing)
                => /\ ~isOpened' /\ ~expanded'
                   /\ Count(calls', "onClose") = 1 /\ Count(calls', "onOpen") = 0
           /\ (isOpened /\ isBrowsing)
                => /\ isOpened' /\ expanded'
                   /\ Callbacks(calls') = 0]_vars

\* toggle() has closed the widget while a timer was pending.
ToggleCorrectnessWitness ==
    /\ calls = <<<<"toggle">>, <<"_close">>, <<"onClose">>>>
    /\ ~isOpened
    /\ ~expanded
    /\ timers # <<>>

\* C5 (disabled guard): a step invokes onSelect with an item as often as it
\* invokes select with it when the item has no `disabled` attribute, and never
\* when the item has the attribute, whatever its value.
DisabledGuard ==
    \A element \in MenuNodes :
        Times(calls, <<"onSelect", element>>)
            = IF getAttribute(element) # <<>>
              THEN 0
              ELSE Times(calls, <<"select", element>>)

\* C6 (outside dismiss): in both modes, a click that is delivered to the
\* opened widget while the pointer is not in the menu, and whose target is
\* neither the trigger nor in the menu, closes the widget within its step
\* (class removed, onClose invoked once) and touches no timer.
OutsideDismiss ==
    [][\A target \in Targets \ ({"trigger"} \cup MenuNodes) :
        (/\ Entry(calls') = <<"handleEvent", "click", target>>
         /\ isOpened
         /\ ~isBrowsing)
            => /\ ~isOpened'
               /\ ~expanded'
               /\ Count(calls', "onClose") = 1
               /\ UNCHANGED <<timers, openTimeout, closeTimeout>>]_vars

\* In hover mode a click outside has closed the widget with a timer pending.
OutsideDismissWitness ==
    /\ openBy = "hover"
    /\ calls = <<<<"handleEvent", "click", "outside">>, <<"_close">>, <<"onClose">>>>
    /\ ~isOpened
    /\ timers # <<>>

\* C7 (state/marker agreement): before the first event or call isOpened is
\* what the expanded class was at construction, and in every state isOpened
\* holds iff el carries the expanded class.
MarkerAgreement ==
    /\ last = "new" => isOpened = initExpanded
    /\ isOpened = expanded

\* An expired timer has closed a widget that was constructed expanded.
MarkerAgreementWitness ==
    /\ initExpanded
    /\ ~isOpened
    /\ ~expanded
    /\ calls = <<<<"timer", "close">>, <<"_close">>, <<"onClose">>>>

\* C8 (click-mode trigger clicks): while only events and timers act on a
\* click-mode widget, isBrowsing stays FALSE, every click on the trigger flips
\* isOpened within its step, invokes toggle once and exactly one callback
\* (onOpen when it opened, onClose when it closed) and leaves the expanded
\* class present iff opened; two clicks in a row restore isOpened.
ClickModeTrigger ==
    /\ [](openBy = "click"
            => /\ ~isBrowsing
               /\ Entry(ClickTrigger(Cur).calls) = <<"handleEvent", "click", "trigger">>
               /\ ClickTrigger(ClickTrigger(Cur)).isOpened = isOpened)
    /\ [][(openBy = "click" /\ Entry(calls') = <<"handleEvent", "click", "trigger">>)
            => /\ isOpened' = ~isOpened
               /\ expanded' = isOpened'
               /\ Count(calls', "toggle") = 1
               /\ Count(calls', "onOpen") = (IF isOpened' THEN 1 ELSE 0)
               /\ Count(calls', "onClose") = (IF isOpened' THEN 0 ELSE 1)]_vars

\* A click on the trigger has closed a click-mode widget.
ClickModeTriggerWitness ==
    /\ openBy = "click"
    /\ calls = <<<<"handleEvent", "click", "trigger">>, <<"toggle">>,
                 <<"_close">>, <<"onClose">>>>
    /\ ~isOpened
    /\ ~expanded

\* C9 (hover-mode close after leaving): in hover mode, when the pointer has
\* left the opened menu it was in, no event has occurred since and every timer
\* has expired, the widget is closed.
HoverCloseAfterLeave ==
    (openBy = "hover" /\ last = "leave" /\ timers = <<>>) => ~isOpened

\* C10 (no mutation after teardown): once destroy() has returned, no step
\* changes isOpened, isBrowsing or the expanded class or invokes a callback.
InertAfterDestroy ==
    [][destroyed
        => /\ UNCHANGED <<isOpened, isBrowsing, expanded>>
           /\ Callbacks(calls') = 0
           /\ ~Invoked(calls', "onSelect")]_vars

\* C11 (listener release): in each mode destroy removes exactly the listeners
\* the constructor registered (hover: pointer enter and leave on the trigger
\* and on the menu, click on the menu and on the window; click: click on the
\* trigger, on the menu and on the window); the widget holds them all until
\* destroy() and none after it, and a second destroy() changes nothing.
ListenerRelease ==
    /\ [](/\ Removed(openBy) = Registered(openBy)
          /\ Registered("hover")
                = {<<"trigger", "mouseover">>, <<"trigger", "mouseout">>,
                   <<"menu", "mouseover">>, <<"menu", "mouseout">>,
                   <<"menu", "click">>, <<"window", "click">>}
          /\ Registered("click")
                = {<<"trigger", "click">>, <<"menu", "click">>,
                   <<"window", "click">>}
          /\ listeners = IF destroyed THEN {} ELSE Registered(openBy))
    /\ [][(destroyed /\ Entry(calls') = <<"destroy">>)
            => UNCHANGED <<listeners, destroyed, widget>>]_vars

\* A hover-mode widget has been destroyed with a timer pending.
ListenerReleaseWitness ==
    /\ openBy = "hover"
    /\ destroyed
    /\ listeners = {}
    /\ calls = <<<<"destroy">>>>
    /\ timers # <<>>

\* C12 (one action per click): in both modes a click on the trigger that the
\* widget handles is handled once and invokes toggle once, with no _open or
\* _close besides the one toggle makes; a click on the menu or in it is
\* handled once and invokes select once, with its target, and no _close
\* other than the one an onSelect callback makes.
OneActionPerClick ==
    \A target \in {"trigger"} \cup MenuNodes :
        Entry(calls) = <<"handleEvent", "click", target>>
            => /\ Count(calls, "handleEvent") = 1
               /\ IF target = "trigger"
                  THEN /\ Count(calls, "toggle") = 1
                       /\ Count(calls, "select") = 0
                       /\ Count(calls, "_open") + Count(calls, "_close") = 1
                  ELSE /\ Times(calls, <<"select", target>>) = 1
                       /\ Count(calls, "select") = 1
                       /\ Count(calls, "toggle") = 0
                       /\ Count(calls, "_open") = 0
                       /\ Count(calls, "_close")
                            = IF onSelectCloses THEN Count(calls, "onSelect") ELSE 0

\* A click on the trigger has closed a click-mode widget: the trigger's
\* listener handled it and the window's did not.
OneActionPerClickWitness ==
    /\ openBy = "click"
    /\ Entry(calls) = <<"handleEvent", "click", "trigger">>
    /\ Invoked(calls, "onClose")
    /\ ~isOpened
    /\ timers # <<>>

\* C13 (hover open delay): in hover mode, on a closed widget with no timer
\* pending, after the last pointer-enter on the trigger of a run (and no later
\* event) the widget is closed until `timeout` has passed since that
\* pointer-enter, and _open runs and opens it at exactly that instant.
HoverOpenDelay ==
    burst.op = "hover"
        => /\ burst.fires = 0 => ~isOpened /\ burst.age <= timeout
           /\ burst.fires > 0 => isOpened /\ burst.at = timeout

\* C14 (dismissal across instances): whenever the widget is opened and the
\* pointer is not in its menu, a click whose target is neither its trigger nor
\* in its menu closes it during that click, a click on the other Dropdown's
\* trigger or menu item included.
GlobalDismissal ==
    [][\A target \in Targets \ ({"trigger"} \cup MenuNodes) :
         (~destroyed /\ isOpened /\ ~isBrowsing /\ Event("click", target))
            => ~isOpened']_vars

\* The pending timers other than those of `kind`, oldest first, each as its
\* kind and the time it has left.
Others(tm, kind) ==
    LET rest == SelectSeq(tm, LAMBDA t : t.kind # kind)
    IN  [i \in 1..Len(rest) |-> <<rest[i].kind, rest[i].rem>>]

\* The timer a closure's `timeout` holds, as its kind and the time it has left
\* (<<>> when it holds none).
Held(tm, held) ==
    IF held \in 1..Len(tm) THEN <<tm[held].kind, tm[held].rem>> ELSE <<>>

\* C15 (independent timers): a step in which close() is called from outside or
\* from a pointer-leave leaves every pending timer that is not close()'s as it
\* was, the one open() holds included, and leaves close() with one timer,
\* started afresh; the same for open() with the two exchanged; a pointer-enter
\* on the trigger leaves every pending timer as it was; _open, _close and
\* toggle called from outside leave the timers and both closures as they were.
IndependentTimers ==
    [][/\ (Invoked(calls', "close") /\ ~Invoked(calls', "timer"))
            => /\ Others(timers', "close") = Others(timers, "close")
               /\ Held(timers', openTimeout') = Held(timers, openTimeout)
               /\ Cardinality(Pending("close")') = 1
               /\ Held(timers', closeTimeout') = <<"close", timeout>>
       /\ (Invoked(calls', "open") /\ ~Invoked(calls', "timer"))
            => /\ Others(timers', "open") = Others(timers, "open")
               /\ Held(timers', closeTimeout') = Held(timers, closeTimeout)
               /\ Cardinality(Pending("open")') = 1
               /\ Held(timers', openTimeout') = <<"open", timeout>>
       /\ Invoked(calls', "debounce")
            => /\ Others(SubSeq(timers', 1, Len(timers)), "-") = Others(timers, "-")
               /\ Held(timers', openTimeout') = Held(timers, openTimeout)
               /\ Held(timers', closeTimeout') = Held(timers, closeTimeout)
       /\ Entry(calls') \in {<<"_open">>, <<"_close">>, <<"toggle">>}
            => UNCHANGED <<timers, openTimeout, closeTimeout>>]_vars

\* close() was called while a timer of open() was part of the way to its
\* deadline: both are pending, each with its own time left.
IndependentTimersWitness ==
    /\ calls = <<<<"close">>>>
    /\ Len(timers) = 2
    /\ Held(timers, openTimeout) = <<"open", 1>>
    /\ Held(timers, closeTimeout) = <<"close", timeout>>

\* C16 (frame): a step changes isOpened or the class only if it invokes _open
\* or _close; select with a callback that does nothing (called from outside or
\* by a click in the menu), onBrowse, onEndBrowse, open() and close() at the
\* time they are called (from outside or by a pointer event) and destroy()
\* leave both as they were.
Frame ==
    [][/\ (isOpened' # isOpened \/ expanded' # expanded)
            => Invoked(calls', "_open") \/ Invoked(calls', "_close")
       /\ (\/ Entry(calls') \in {<<"onBrowse">>, <<"onEndBrowse">>, <<"open">>,
                                 <<"close">>, <<"destroy">>}
           \/ \E target \in PointerTargets :
                Entry(calls') \in {<<"handleEvent", "mouseover", target>>,
                                   <<"handleEvent", "mouseout", target>>}
           \/ /\ ~onSelectCloses
              /\ \E element \in MenuNodes :
                    Entry(calls') \in {<<"select", element>>,
                                       <<"handleEvent", "click", element>>})
            => UNCHANGED <<isOpened, expanded>>]_vars

\* An item of the opened menu was clicked, the callback ran and did nothing:
\* the menu is still opened.
FrameWitness ==
    /\ ~onSelectCloses
    /\ calls = <<<<"handleEvent", "click", "itemPlain">>,
                 <<"select", "itemPlain">>, <<"onSelect", "itemPlain">>>>
    /\ isOpened
    /\ expanded

\* C17 (closing from onSelect): when a click on an item has invoked an
\* onSelect callback that calls the widget's _close(), the widget is closed
\* when the click has been handled, in click mode and in hover mode.
ClosingFromOnSelect ==
    (/\ onSelectCloses
     /\ \E element \in MenuNodes :
            Entry(calls) = <<"handleEvent", "click", element>>
     /\ Invoked(calls, "onSelect"))
        => ~isOpened

\* C18 (configured delay): the timer a call of open() or close() starts runs
\* for options.wait milliseconds when the caller supplied options.wait (0
\* included), and for 400 when the caller did not.
ConfiguredDelay ==
    (calls # <<>> /\ calls[Len(calls)] \in {<<"open">>, <<"close">>})
        => timers[Len(timers)].rem = IF wait = <<>> THEN DefaultTimeout ELSE wait[1]

\* C19 (callback alternation): a step invokes at most one of onOpen and
\* onClose, and after every step the onOpen invocations so far exceed the
\* onClose invocations by (1 if opened, else 0) less (1 if constructed opened,
\* else 0); so the two alternate, and the first is onOpen exactly when the
\* widget was constructed closed.
CallbackAlternation ==
    /\ Callbacks(calls) <= 1
    /\ net = (IF isOpened THEN 1 ELSE 0) - (IF initExpanded THEN 1 ELSE 0)

\* A widget constructed closed was opened and has just been closed again.
CallbackAlternationWitness ==
    /\ ~initExpanded
    /\ Invoked(calls, "onClose")
    /\ net = 0
    /\ ~isOpened

\* C20 (dismissal is stable): once a click outside the trigger and the menu
\* has closed the widget, the widget is closed for as long as no further event
\* or method call reaches it, whatever timers expire meanwhile.
DismissalStable == last = "dismiss" => ~isOpened

====
